---- MODULE Spec2Model ----
(***************************************************************************)
(* Model of atomist/sdm-pack-version: the Release goal (lib/release.ts),   *)
(* its goal executor executeRelease and the GitHub release creator         *)
(* githubReleaseCreator (lib/github.ts).                                   *)
(*                                                                         *)
(* Text is a sequence of parts (template literals concatenate parts), an   *)
(* optional value is a sequence of length 0 (undefined) or 1.              *)
(***************************************************************************)
EXTENDS Integers, Sequences, FiniteSets, TLC

VARIABLES
    fulfillments,   \* Release.fulfillments: sequence of [name, releaseCreator]
    callbacks,      \* Release.callbacks.length
    listeners,      \* startup listeners this goal added to the SDM
    started,        \* the host has started
    pending,        \* startup listeners the host has still to run
    withCalls,      \* history: number of with(registration) calls so far
    generated,      \* names DefaultGoalNameGenerator has generated for fulfillments
    ex,             \* the running executeRelease invocation (frame)
    gh              \* the running githubReleaseCreator invocation (frame)

vars == <<fulfillments, callbacks, listeners, started, pending, withCalls, generated, ex, gh>>

goalVars == <<fulfillments, callbacks, listeners, started, pending, withCalls, generated>>

(***************************************************************************)
(* Bounds of the model.                                                    *)
(***************************************************************************)
MaxWith == 2
MaxCallbacks == 1
MaxRegister == 2

(***************************************************************************)
(* Optional values and text.                                               *)
(***************************************************************************)
None == <<>>
Some(x) == <<x>>

\* JavaScript truthiness of an optional string: undefined and "" are falsy.
Truthy(o) == o # None /\ o[1] # ""

\* t occurs in s as a contiguous run of parts.
Contains(s, t) ==
    \E i \in 1..(Len(s) + 1) :
        /\ i + Len(t) - 1 <= Len(s)
        /\ SubSeq(s, i, i + Len(t) - 1) = t

Range(s) == { s[i] : i \in 1..Len(s) }

(***************************************************************************)
(* Input domains.                                                          *)
(***************************************************************************)
\* Repository identities: the three of the tests and a GitHub Enterprise one.
PlainId == [owner |-> "KendrickLamar", repo |-> "DAMN.", kind |-> None, apiBase |-> None]
BitbucketId == [owner |-> "KendrickLamar", repo |-> "DAMN.",
                kind |-> Some("bitbucketserver"), apiBase |-> Some("https://api.github.com")]
GitHubId == [owner |-> "KendrickLamar", repo |-> "DAMN.",
             kind |-> Some("github"), apiBase |-> Some("https://api.github.com")]
GheId == [owner |-> "atomist", repo |-> "sdm-pack-version",
          kind |-> Some("github"), apiBase |-> Some("https://ghe.example.com/api/v3")]
Ids == {PlainId, BitbucketId, GitHubId, GheId}

Credentials == { [token |-> Some("XXX")], [token |-> Some("YYY")], [token |-> None] }

Shas == {"4455434b574f5254482e", "2f753d1d54ba704bdf8c"}

\* Version strings, as parts: a release, a pre-release, and one that is no semver.
ReleaseV == <<"2.0.17">>
PreReleaseV == <<"2.0.17", "-", "master.20191108">>
MalformedV == <<"not.a.version">>
Versions == {ReleaseV, PreReleaseV, MalformedV}

\* The changelog names probed, in the order of the loop.
ChangelogCandidatesReversed == <<"changelog", "Changelog", "ChangeLog", "CHANGELOG", "CHANGELOG.md">>
ChangelogCandidates == <<"CHANGELOG.md", "CHANGELOG", "ChangeLog", "Changelog", "changelog">>

Projects == SUBSET Range(<<"CHANGELOG.md", "CHANGELOG", "ChangeLog", "Changelog", "changelog">>)

\* Error texts of the collaborators.
ErrHasFile == "EACCES: permission denied"
ErrCreateRelease == "Validation Failed"
ErrLog == "progress log closed"
ErrIdentity == "Cannot read property 'owner' of undefined"
ErrLoad == "Failed to clone"
ErrSemver == "Invalid Version"
ErrCreator == "creator exploded"

(***************************************************************************)
(* lib/github.ts                                                           *)
(***************************************************************************)
slug(id) == <<id.owner, "/", id.repo>>

isGitHubRepoRefApiBaseOnly(id) == Truthy(id.apiBase)
isGitHubRepoRef(id) == Truthy(id.apiBase) /\ id.kind = Some("github")

isTokenCredentials(c) == Truthy(c.token)

NotGitHubMessage(id) ==
    <<"Project ">> \o slug(id) \o <<" is neither a GitHub.com nor GHE remote repository">>

NotTokenMessage(id) ==
    <<"Project ">> \o slug(id) \o <<" credentials are not TokenCredentials">>

\* The Octokit client options and the repos.createRelease request.
ReleaseCallDefaultBranch(args, changelog) ==
    [ auth |-> args.credentials.token[1],
      baseUrl |-> args.id.apiBase[1],
      owner |-> args.id.owner,
      repo |-> args.id.repo,
      tag_name |-> args.releaseVersion,
      target_commitish |-> "master",
      name |-> <<"Release ">> \o args.releaseVersion,
      body |-> IF Truthy(changelog)
               THEN Some(<<"See [CHANGELOG](", changelog[1], ") for details.">>)
               ELSE None,
      prerelease |-> "-" \in Range(args.releaseVersion) ]
ReleaseCall(args, changelog) ==
    [ auth |-> args.credentials.token[1],
      baseUrl |-> args.id.apiBase[1],
      owner |-> args.id.owner,
      repo |-> args.id.repo,
      tag_name |-> args.releaseVersion,
      target_commitish |-> args.goalEvent.sha,
      name |-> <<"Release ">> \o args.releaseVersion,
      body |-> IF Truthy(changelog)
               THEN Some(<<"See [CHANGELOG](", changelog[1], ") for details.">>)
               ELSE None,
      prerelease |-> "-" \in Range(args.releaseVersion) ]

CreatedMessage(releaseVersion, id) ==
    <<"Created release ">> \o releaseVersion \o <<" for ">> \o slug(id)

GitHubFailureSilent(args, e) ==
    [ code |-> 0, message |-> Some(CreatedMessage(args.releaseVersion, args.id)) ]
GitHubFailure(args, e) ==
    [ code |-> 1,
      message |-> Some(<<"Failed to create release ">> \o args.releaseVersion
                       \o <<" for project ">> \o slug(args.id) \o <<": ", e>>) ]

GhIdle == [pc |-> "idle"]

GhFrame(args, caller) ==
    [ pc |-> "start", caller |-> caller, args |-> args,
      hasId |-> FALSE,          \* args.id was read: args.id is the identity itself
      idx |-> 1, changelog |-> None,
      probes |-> <<>>, calls |-> <<>>,
      raised |-> <<>>,          \* messages of the errors raised so far, in order
      outcome |-> "running", result |-> None, thrown |-> None ]

GhReturned(f, r) == [f EXCEPT !.pc = "done", !.outcome = "returned", !.result = Some(r)]
GhThrown(f, e) ==
    [f EXCEPT !.pc = "done", !.outcome = "thrown", !.thrown = Some(e),
              !.raised = Append(@, e)]
GhCaught(f, e) == [f EXCEPT !.pc = "catch", !.raised = Append(@, e)]

\* githubReleaseCreator called on its own (as the tests do), with any arguments;
\* id may be undefined (None).
GitHubArgs ==
    [ credentials : Credentials,
      goalEvent : [sha : Shas],
      id : {None} \cup { Some(i) : i \in Ids },
      releaseVersion : {ReleaseV, PreReleaseV},
      project : Projects ]

InvokeGitHubReleaseCreator ==
    /\ gh.pc = "idle" /\ ex.pc = "idle"
    /\ \E a \in GitHubArgs : gh' = GhFrame(a, "direct")
    /\ UNCHANGED <<goalVars, ex>>

\* Lines 29-41: the slug and the two guards. args.log.write may raise.
GitHubGuards ==
    /\ gh.pc = "start"
    /\ IF gh.args.id = None
       THEN gh' = GhThrown(gh, ErrIdentity)
       ELSE LET args == [gh.args EXCEPT !.id = gh.args.id[1]]
                f == [gh EXCEPT !.args = args, !.hasId = TRUE]
            IN  IF ~isGitHubRepoRef(args.id)
                THEN \E ok \in BOOLEAN :
                        gh' = IF ok
                              THEN GhReturned(f, [code |-> 0, message |-> Some(NotGitHubMessage(args.id))])
                              ELSE GhThrown(f, ErrLog)
                ELSE IF ~isTokenCredentials(args.credentials)
                THEN \E ok \in BOOLEAN :
                        gh' = IF ok
                              THEN GhReturned(f, [code |-> 0, message |-> Some(NotTokenMessage(args.id))])
                              ELSE GhThrown(f, ErrLog)
                ELSE gh' = [f EXCEPT !.pc = "probe"]
    /\ UNCHANGED <<goalVars, ex>>

\* Lines 49-55: one iteration of the changelog loop; project.hasFile may raise.
GitHubProbeChangelog ==
    /\ gh.pc = "probe"
    /\ LET ch == ChangelogCandidates[gh.idx]
           f == [gh EXCEPT !.probes = Append(@, ch)]
       IN  \E ok \in BOOLEAN :
             gh' = IF ~ok THEN GhCaught(f, ErrHasFile)
                   ELSE IF ch \in gh.args.project
                   THEN [f EXCEPT !.changelog = Some(ch), !.pc = "create"]
                   ELSE IF gh.idx = Len(ChangelogCandidates)
                   THEN [f EXCEPT !.pc = "create"]
                   ELSE [f EXCEPT !.idx = @ + 1]
    /\ UNCHANGED <<goalVars, ex>>

\* Lines 44-48, 56-67: the release-creation call, then the success result.
GitHubCreateRelease ==
    /\ gh.pc = "create"
    /\ LET f == [gh EXCEPT !.calls = Append(@, ReleaseCall(gh.args, gh.changelog))]
       IN  \E created \in BOOLEAN, ok \in BOOLEAN :
             gh' = IF ~created THEN GhCaught(f, ErrCreateRelease)
                   ELSE IF ~ok THEN GhCaught(f, ErrLog)
                   ELSE GhReturned(f, [code |-> 0,
                                       message |-> Some(CreatedMessage(gh.args.releaseVersion, gh.args.id))])
    /\ UNCHANGED <<goalVars, ex>>

\* Lines 68-73: the catch block; its own args.log.write may raise.
GitHubCatch ==
    /\ gh.pc = "catch"
    /\ \E ok \in BOOLEAN :
         gh' = IF ok
               THEN GhReturned(gh, GitHubFailure(gh.args, gh.raised[Len(gh.raised)]))
               ELSE GhThrown(gh, ErrLog)
    /\ UNCHANGED <<goalVars, ex>>

\* The direct caller takes the result (or the error).
GitHubSettle ==
    /\ gh.pc = "done" /\ gh.caller = "direct"
    /\ gh' = GhIdle
    /\ UNCHANGED <<goalVars, ex>>

(***************************************************************************)
(* lib/release.ts: class Release                                           *)
(***************************************************************************)
\* The release creators a fulfillment can carry: the default installed by the
\* startup listener ("noop"), githubReleaseCreator, and some other function.
UserCreators == {"github", "custom"}

\* DefaultGoalNameGenerator.generateName(prefix): a fresh name on every call.
generateName(prefix, n) == <<prefix, n + 1>>

\* The registrations with() is called with: named by the caller or not.
Registrations(k) ==
    [ name : {None, Some(<<"my-release", k>>)}, releaseCreator : UserCreators ]

\* FulfillableGoal.addFulfillment, as with() uses it.
addFulfillmentReplacing(fs, f) == <<f>>
addFulfillment(fs, f) == Append(fs, f)

\* with(registration), lines 112-119.
With ==
    /\ withCalls < MaxWith
    /\ \E r \in Registrations(withCalls + 1) :
         IF r.name # None
         THEN /\ fulfillments' = addFulfillment(fulfillments,
                                    [name |-> r.name[1], releaseCreator |-> r.releaseCreator])
              /\ generated' = generated
         ELSE /\ fulfillments' = addFulfillment(fulfillments,
                                    [name |-> generateName("release", generated),
                                     releaseCreator |-> r.releaseCreator])
              /\ generated' = generated + 1
    /\ withCalls' = withCalls + 1
    /\ UNCHANGED <<callbacks, listeners, started, pending, ex, gh>>

\* The host API that fills this.callbacks, which the startup listener reads.
AddFulfillmentCallback ==
    /\ callbacks < MaxCallbacks
    /\ callbacks' = callbacks + 1
    /\ UNCHANGED <<fulfillments, listeners, started, pending, withCalls, generated, ex, gh>>

\* register(sdm), lines 96-107: adds one startup listener.
register ==
    /\ ~started
    /\ listeners < MaxRegister
    /\ listeners' = listeners + 1
    /\ UNCHANGED <<fulfillments, callbacks, started, pending, withCalls, generated, ex, gh>>

\* The host starts and will run every startup listener.
HostStartup ==
    /\ ~started
    /\ started' = TRUE
    /\ pending' = listeners
    /\ UNCHANGED <<fulfillments, callbacks, listeners, withCalls, generated, ex, gh>>

\* The guard of the startup listener, line 100.
needsDefaultAlways(fs, cbs) == TRUE
needsDefault(fs, cbs) == Len(fs) = 0 /\ cbs = 0

\* The startup listener, lines 99-106.
StartupListener ==
    /\ started /\ pending > 0
    /\ pending' = pending - 1
    /\ IF needsDefault(fulfillments, callbacks)
       THEN /\ fulfillments' = addFulfillment(fulfillments,
                                  [name |-> generateName("noop-release", generated),
                                   releaseCreator |-> "noop"])
            /\ generated' = generated + 1
       ELSE UNCHANGED <<fulfillments, generated>>
    /\ UNCHANGED <<callbacks, listeners, started, withCalls, ex, gh>>

(***************************************************************************)
(* lib/release.ts: executeRelease                                          *)
(***************************************************************************)
\* ./semver releaseLikeVersion: a version without a pre-release passes through,
\* one with a pre-release becomes the final release; a malformed one raises.
ValidVersion(v) == v # MalformedV

releaseLikeVersion(v) ==
    IF "-" \in Range(v)
    THEN SubSeq(v, 1, (CHOOSE i \in 1..Len(v) : v[i] = "-" /\ \A j \in 1..(i - 1) : v[j] # "-") - 1)
    ELSE v

\* Line 152.
ReleaseVersionUnchanged(version) == version
ReleaseVersionOf(version) == releaseLikeVersion(version)

\* What the host hands the goal executor.
GoalIds == {BitbucketId, GheId}
GoalCredentials == { [token |-> Some("XXX")], [token |-> None] }
GoalShas == {"4455434b574f5254482e"}
GoalProjects == { {}, {"CHANGELOG", "changelog"} }
GoalVersions == {None} \cup { Some(v) : v \in Versions }

GoalInvocations ==
    [ projectLoader : BOOLEAN,
      credentials : GoalCredentials,
      id : GoalIds,
      goalEvent : [sha : GoalShas] ]

\* What a release creator other than the two of this package may do.
CustomOutcomes ==
    { [raises |-> FALSE, code |-> 0, message |-> Some(<<"custom release done">>)],
      [raises |-> FALSE, code |-> 1, message |-> Some(<<"no release today">>)],
      [raises |-> FALSE, code |-> 2, message |-> None],
      [raises |-> TRUE, code |-> 0, message |-> Some(<<ErrCreator>>)] }

NoLoaderResult ==
    [code |-> 1, message |-> Some(<<"Invalid configuration: no projectLoader">>), msg |-> None]

NoVersionResultOk ==
    [code |-> 0, message |-> None, msg |-> Some(<<"Current goal set does not have a version">>)]
NoVersionResult ==
    [code |-> 1, message |-> None, msg |-> Some(<<"Current goal set does not have a version">>)]

\* Lines 167-170.
FailedResult(id, reason) ==
    [code |-> 1, message |-> None,
     msg |-> Some(<<"Failed create release for ">> \o slug(id) \o <<": ">> \o reason)]

\* Lines 172-174.
CreatedResult(releaseVersion, id) ==
    [code |-> 0, message |-> Some(CreatedMessage(releaseVersion, id)), msg |-> None]

\* Line 164: the message of the error thrown for a non-zero code.
CodeErrorMessage(releaseResult) ==
    IF releaseResult.message # None /\ releaseResult.message[1] # <<>>
    THEN releaseResult.message[1]
    ELSE <<"release creator failed">>

\* Where the catch block of lines 166-171 leaves the invocation.
AfterCatchRetry == "invoke"
AfterCatch == "done"

ExIdle == [pc |-> "idle"]

ExFrame(creator, gi) ==
    [ pc |-> "start", creator |-> creator, gi |-> gi,
      loads |-> 0, project |-> {},
      asked |-> FALSE,          \* goalInvocationVersion has answered
      version |-> None, releaseVersion |-> None,
      creatorCalls |-> 0,
      creatorFailed |-> FALSE,  \* the creator returned a non-zero code or raised
      creatorOk |-> FALSE,      \* the creator returned code 0
      reason |-> None,          \* e.message in the catch block
      releaseResult |-> None,
      outcome |-> "running", result |-> None, thrown |-> None ]

ExReturned(f, r) == [f EXCEPT !.pc = "done", !.outcome = "returned", !.result = Some(r)]
ExThrown(f, e) == [f EXCEPT !.pc = "done", !.outcome = "thrown", !.thrown = Some(e)]

\* The host runs the goal executor of one fulfillment; lines 134-141.
ExecuteGoal ==
    /\ ex.pc = "idle" /\ gh.pc = "idle"
    /\ started /\ pending = 0
    /\ \E i \in 1..Len(fulfillments), gi \in GoalInvocations, ok \in BOOLEAN :
         LET f == ExFrame(fulfillments[i].releaseCreator, gi)
         IN  ex' = IF gi.projectLoader THEN [f EXCEPT !.pc = "load"]
                   ELSE IF ok THEN ExReturned(f, NoLoaderResult)
                   ELSE ExThrown(f, ErrLog)
    /\ UNCHANGED <<goalVars, gh>>

\* Line 143: projectLoader.doWithProject loads the project, or fails.
ExDoWithProject ==
    /\ ex.pc = "load"
    /\ \E loaded \in BOOLEAN, p \in GoalProjects :
         ex' = IF loaded
               THEN [ex EXCEPT !.pc = "version", !.loads = @ + 1, !.project = p]
               ELSE ExThrown([ex EXCEPT !.loads = @ + 1], ErrLoad)
    /\ UNCHANGED <<goalVars, gh>>

\* Lines 144-153: the version of the goal set, the release version, the log line.
ExVersion ==
    /\ ex.pc = "version"
    /\ \E v \in GoalVersions, ok \in BOOLEAN :
         LET f == [ex EXCEPT !.version = v, !.asked = TRUE]
         IN  ex' = IF ~Truthy(v)
                   THEN IF ok THEN ExReturned(f, NoVersionResult) ELSE ExThrown(f, ErrLog)
                   ELSE IF ~ValidVersion(v[1]) THEN ExThrown(f, ErrSemver)
                   ELSE IF ~ok THEN ExThrown([f EXCEPT !.releaseVersion = Some(ReleaseVersionOf(v[1]))], ErrLog)
                   ELSE [f EXCEPT !.releaseVersion = Some(ReleaseVersionOf(v[1])), !.pc = "invoke"]
    /\ UNCHANGED <<goalVars, gh>>

\* The arguments of lines 155-162.
CreatorArgs(f) ==
    [ credentials |-> f.gi.credentials,
      goalEvent |-> f.gi.goalEvent,
      id |-> Some(f.gi.id),
      releaseVersion |-> f.releaseVersion[1],
      project |-> f.project ]

\* Lines 163-165 and 172-174, once the creator has returned releaseResult.
AfterCreatorReturned(f, rr, ok) ==
    LET g == [f EXCEPT !.releaseResult = Some(rr)]
    IN  IF rr.code # 0
        THEN [g EXCEPT !.pc = "catch", !.creatorFailed = TRUE, !.reason = Some(CodeErrorMessage(rr))]
        ELSE IF ok
        THEN ExReturned([g EXCEPT !.creatorOk = TRUE], CreatedResult(f.releaseVersion[1], f.gi.id))
        ELSE ExThrown([g EXCEPT !.creatorOk = TRUE], ErrLog)

AfterCreatorRaised(f, e) ==
    [f EXCEPT !.pc = "catch", !.creatorFailed = TRUE, !.reason = Some(e)]

\* Line 155: call the release creator. The default and a custom creator answer
\* at once; githubReleaseCreator runs as its own invocation.
ExInvokeCreator ==
    /\ ex.pc = "invoke"
    /\ LET f == [ex EXCEPT !.creatorCalls = @ + 1]
       IN  CASE ex.creator = "noop" ->
                  /\ \E ok \in BOOLEAN :
                       ex' = AfterCreatorReturned(f,
                                [code |-> 0, message |-> Some(<<"Release goal executed">>)], ok)
                  /\ gh' = gh
            [] ex.creator = "custom" ->
                  /\ \E o \in CustomOutcomes, ok \in BOOLEAN :
                       ex' = IF o.raises THEN AfterCreatorRaised(f, o.message[1])
                             ELSE AfterCreatorReturned(f, [code |-> o.code, message |-> o.message], ok)
                  /\ gh' = gh
            [] ex.creator = "github" ->
                  /\ ex' = [f EXCEPT !.pc = "await"]
                  /\ gh' = GhFrame(CreatorArgs(f), "goal")
    /\ UNCHANGED goalVars

\* The await of line 155 resumes with githubReleaseCreator's result or error.
ExAwaitCreator ==
    /\ ex.pc = "await" /\ gh.pc = "done"
    /\ \E ok \in BOOLEAN :
         ex' = IF gh.outcome = "thrown" THEN AfterCreatorRaised(ex, <<gh.thrown[1]>>)
               ELSE AfterCreatorReturned(ex, gh.result[1], ok)
    /\ gh' = GhIdle
    /\ UNCHANGED goalVars

\* Lines 166-171: the catch block; progressLog.write may raise.
ExCatch ==
    /\ ex.pc = "catch"
    /\ \E ok \in BOOLEAN :
         ex' = IF ok
               THEN [ExReturned(ex, FailedResult(ex.gi.id, ex.reason[1])) EXCEPT !.pc = AfterCatch]
               ELSE ExThrown(ex, ErrLog)
    /\ UNCHANGED <<goalVars, gh>>

\* The host takes the goal result.
ExSettle ==
    /\ ex.pc = "done"
    /\ ex' = ExIdle
    /\ UNCHANGED <<goalVars, gh>>

(***************************************************************************)
(* Specifications                                                          *)
(***************************************************************************)
Init ==
    /\ fulfillments = <<>>
    /\ callbacks = 0
    /\ listeners = 0
    /\ started = FALSE
    /\ pending = 0
    /\ withCalls = 0
    /\ generated = 0
    /\ ex = ExIdle
    /\ gh = GhIdle

\* The Release goal in a running SDM.
Next ==
    \/ With
    \/ AddFulfillmentCallback
    \/ register
    \/ HostStartup
    \/ StartupListener
    \/ ExecuteGoal
    \/ ExDoWithProject
    \/ ExVersion
    \/ ExInvokeCreator
    \/ ExAwaitCreator
    \/ ExCatch
    \/ ExSettle
    \/ GitHubGuards
    \/ GitHubProbeChangelog
    \/ GitHubCreateRelease
    \/ GitHubCatch

Spec == Init /\ [][Next]_vars

\* githubReleaseCreator called on its own, over all of its arguments.
NextGitHub ==
    \/ InvokeGitHubReleaseCreator
    \/ GitHubGuards
    \/ GitHubProbeChangelog
    \/ GitHubCreateRelease
    \/ GitHubCatch
    \/ GitHubSettle

SpecGitHub == Init /\ [][NextGitHub]_vars

(***************************************************************************)
(* Properties                                                              *)
(***************************************************************************)
\* The identities the claims call GitHub-shaped, and the token credentials.
GitHubShaped(id) == id \in {GitHubId, GheId}
HasToken(c) == c \in { [token |-> Some("XXX")], [token |-> Some("YYY")] }

GhFinished == gh.pc = "done"
GhCode == gh.result[1].code
GhMessage == gh.result[1].message[1]

\* C1: when the identity is not GitHub-shaped, or it is and the credentials
\* carry no token, githubReleaseCreator never probes the project with hasFile and
\* never calls the release creation, and the result it returns has code 0; it
\* ends without a result only when the log sink refused the warning.
C1_SkipIsNoOp ==
    (GhFinished /\ gh.hasId
        /\ (~GitHubShaped(gh.args.id) \/ ~HasToken(gh.args.credentials)))
    => /\ gh.calls = <<>>
       /\ gh.probes = <<>>
       /\ gh.outcome = "returned" => GhCode = 0
       /\ gh.outcome = "thrown" => gh.thrown = Some(ErrLog)

C1_Witness ==
    /\ GhFinished /\ gh.hasId
    /\ gh.args.id = GheId /\ gh.args.credentials = [token |-> None]
    /\ gh.outcome = "returned" /\ GhCode = 0

\* C2 as claimed: githubReleaseCreator always ends by returning a result,
\* whichever collaborator fails (hasFile, the release creation, the log sink,
\* reading the identity), and after an error the result has code 1 and a
\* message with the slug, the version and the error text.
C2_NeverThrows ==
    GhFinished
    => /\ gh.outcome = "returned"
       /\ gh.raised # <<>> =>
             /\ GhCode = 1
             /\ Contains(GhMessage, slug(gh.args.id))
             /\ Contains(GhMessage, gh.args.releaseVersion)
             /\ Contains(GhMessage, <<gh.raised[Len(gh.raised)]>>)

\* C2 amended: an error raised inside the try block (by hasFile, by the release
\* creation, by the log write after it) is caught, and when the handler's own log
\* write succeeds the result has code 1 and a message with the slug, the version
\* and the error text. What githubReleaseCreator throws to its caller is the
\* failure to read the identity, or a failed log write on a skip path or in the
\* handler.
C2_CaughtInsideTry ==
    GhFinished
    => /\ (gh.outcome = "returned" /\ gh.raised # <<>>) =>
             /\ GhCode = 1
             /\ Contains(GhMessage, slug(gh.args.id))
             /\ Contains(GhMessage, gh.args.releaseVersion)
             /\ Contains(GhMessage, <<gh.raised[Len(gh.raised)]>>)
       /\ (gh.outcome = "returned" /\ gh.raised = <<>>) => GhCode = 0
       /\ gh.outcome = "thrown" =>
             /\ gh.thrown \in {Some(ErrIdentity), Some(ErrLog)}
             /\ gh.thrown = Some(ErrIdentity) <=> ~gh.hasId
       /\ gh.raised \in {<<ErrHasFile>>, <<ErrCreateRelease>>} => gh.outcome = "returned"

C2_Witness ==
    /\ GhFinished /\ gh.outcome = "returned"
    /\ gh.raised = <<ErrCreateRelease>>
    /\ GhCode = 1

\* The order of the changelog names, as the specification lists them.
NamesInOrder == <<"CHANGELOG.md", "CHANGELOG", "ChangeLog", "Changelog", "changelog">>

FirstPresent(files) ==
    IF \E i \in 1..Len(NamesInOrder) : NamesInOrder[i] \in files
    THEN Some(NamesInOrder[CHOOSE i \in 1..Len(NamesInOrder) :
                  /\ NamesInOrder[i] \in files
                  /\ \A j \in 1..(i - 1) : NamesInOrder[j] \notin files])
    ELSE None

\* C6: whenever the release creation is called, the changelog it refers to is
\* the first name of CHANGELOG.md, CHANGELOG, ChangeLog, Changelog, changelog
\* that the project contains, and the release has no changelog reference when
\* the project contains none of them.
C6_FirstChangelog ==
    (gh.pc # "idle" /\ (gh.pc = "create" \/ gh.calls # <<>>))
    => /\ gh.changelog = FirstPresent(gh.args.project)
       /\ \A k \in 1..Len(gh.calls) :
            gh.calls[k].body =
                IF FirstPresent(gh.args.project) = None THEN None
                ELSE Some(<<"See [CHANGELOG](", FirstPresent(gh.args.project)[1], ") for details.">>)

C6_Witness ==
    /\ GhFinished /\ Len(gh.calls) = 1
    /\ gh.args.project = {"Changelog", "CHANGELOG", "changelog"}
    /\ gh.changelog = Some("CHANGELOG")

\* C7: every release-creation call carries the token of the credentials, the
\* API base, owner and repo of the identity, the release version as the tag and
\* the sha of the goal event as the target commit.
C7_CallMatchesArguments ==
    gh.pc # "idle"
    => \A k \in 1..Len(gh.calls) :
         /\ Some(gh.calls[k].auth) = gh.args.credentials.token
         /\ Some(gh.calls[k].baseUrl) = gh.args.id.apiBase
         /\ gh.calls[k].owner = gh.args.id.owner
         /\ gh.calls[k].repo = gh.args.id.repo
         /\ gh.calls[k].tag_name = gh.args.releaseVersion
         /\ gh.calls[k].target_commitish = gh.args.goalEvent.sha

C7_Witness ==
    /\ GhFinished /\ Len(gh.calls) = 1
    /\ gh.args.id = GheId
    /\ gh.args.credentials.token = Some("YYY")
    /\ gh.args.goalEvent.sha = "2f753d1d54ba704bdf8c"
    /\ gh.args.releaseVersion = PreReleaseV
    /\ gh.outcome = "returned" /\ GhCode = 0

ExFinished == ex.pc = "done"
ExReturnedResult == ex.pc = "done" /\ ex.outcome = "returned"

\* C3: when the release creator returned a non-zero code or raised, the goal
\* result has code 1 and its message field contains the creator's message (the
\* reason of the failure).
C3_FailureMessage ==
    (ExReturnedResult /\ ex.creatorFailed)
    => /\ ex.result[1].code = 1
       /\ ex.result[1].message # None
       /\ Contains(ex.result[1].message[1], ex.reason[1])

\* C4: without a project loader the project is never loaded and the release
\* creator never called, and the result is code 1; without a version for the
\* goal set the release creator is never called and the result is code 1; so the
\* release creator is called only with a loader and a version. No result comes
\* back only when the progress log refused the message.
C4_NeedsLoaderAndVersion ==
    ex.pc # "idle"
    => /\ ~ex.gi.projectLoader =>
             /\ ex.loads = 0 /\ ex.creatorCalls = 0
             /\ ExFinished
             /\ ex.outcome = "returned" => ex.result[1].code = 1
             /\ ex.outcome = "thrown" => ex.thrown = Some(ErrLog)
       /\ (ex.asked /\ ex.version = None) =>
             /\ ex.creatorCalls = 0
             /\ ExFinished
             /\ ex.outcome = "returned" => ex.result[1].code = 1
             /\ ex.outcome = "thrown" => ex.thrown = Some(ErrLog)
       /\ ex.creatorCalls > 0 =>
             ex.gi.projectLoader /\ ex.loads = 1 /\ ex.asked /\ ex.version # None

C4_Witness ==
    /\ ExReturnedResult
    /\ ex.gi.projectLoader /\ ex.asked /\ ex.version = None
    /\ ex.result[1].code = 1 /\ ex.creatorCalls = 0

StartupDone == started /\ pending = 0 /\ listeners > 0

NoopCount == Cardinality({ i \in 1..Len(fulfillments) : fulfillments[i].releaseCreator = "noop" })

\* C8 as claimed: a Release goal never has more than one fulfillment.
C8_AtMostOne == Len(fulfillments) <= 1

\* C8 amended: a Release goal has one fulfillment for every with(registration)
\* call and at most one default no-op beside them.
C8_OnePerWith ==
    /\ Len(fulfillments) = withCalls + NoopCount
    /\ NoopCount <= 1

C8_Witness == Len(fulfillments) = 3 /\ NoopCount = 1 /\ withCalls = 2

\* C9: one goal execution calls the release creator at most once, also when
\* the creator returns a non-zero code or raises.
C9_SingleAttempt ==
    ex.pc # "idle" => ex.creatorCalls <= 1

C9_Witness ==
    /\ ExReturnedResult /\ ex.creatorFailed /\ ex.creatorCalls = 1

\* C10: when the release creator returned code 0, the goal result is code 0
\* with the message "Created release <releaseVersion> for <owner>/<repo>", the
\* release version being what releaseLikeVersion makes of the goal set version;
\* and a goal result of code 0 comes only from such an execution.
C10_Success ==
    /\ (ExFinished /\ ex.creatorOk) =>
         /\ ex.outcome = "returned" =>
              ex.result[1] = [ code |-> 0,
                               message |-> Some(<<"Created release ">> \o releaseLikeVersion(ex.version[1])
                                                \o <<" for ", ex.gi.id.owner, "/", ex.gi.id.repo>>),
                               msg |-> None ]
         /\ ex.outcome = "thrown" => ex.thrown = Some(ErrLog)
    /\ (ExReturnedResult /\ ex.result[1].code = 0) =>
         /\ ex.gi.projectLoader /\ ex.loads = 1
         /\ ex.asked /\ ex.version # None
         /\ ex.creatorOk /\ ex.creatorCalls = 1 /\ ~ex.creatorFailed

C10_Witness ==
    /\ ExReturnedResult /\ ex.result[1].code = 0
    /\ ex.creator = "github" /\ ex.version = Some(PreReleaseV)

====
